---- MODULE Spec2Model ----
(***************************************************************************)
(* Model of src/sna.py: the extraction client message_r1, the live and     *)
(* replay paths of create_knowledge_graph, and load_knowledge_graph.       *)
(*                                                                         *)
(* A text is a sequence of tokens; a token is a tuple of strings.  The     *)
(* generation endpoint answers with a text, cut into fragments; json.loads *)
(* is the parser json_loads below; a networkx DiGraph is a record of node, *)
(* node attribute and labelled edge sets.                                  *)
(***************************************************************************)
EXTENDS Naturals, Sequences, FiniteSets

(***************************************************************************)
(* Bounds of the model.                                                    *)
(***************************************************************************)
MaxEnts == 2
MaxRels == 2
ChunkLen == 4
MaxReplyLen == 10

Names == {"a", "b"}
Types == {"person", "event"}
Descs == {"d1", "d2"}

SnapshotPath == "network_dict.json"
OtherPath == "other.json"
Paths == {SnapshotPath, OtherPath}

(***************************************************************************)
(* Tokens of a serialized ExtractionDocument.                              *)
(***************************************************************************)
LB == <<"{">>
RB == <<"}">>
EndArr == <<"]">>
Key(k) == <<"key", k>>
Ent(n, t) == <<"entity", n, t>>
Rel(s, t, d) == <<"relationship", s, t, d>>
Ctx == <<"context_item">>

Keys == {"entities", "relationships", "context"}
EntityTokens == {Ent(n, t) : n \in Names, t \in Types}
RelTokens == {Rel(s, t, d) : s \in Names, t \in Names, d \in Descs}

SeqsUpTo(S, n) == UNION {[1..m -> S] : m \in 0..n}

Section(k, items) == <<Key(k)>> \o items \o <<EndArr>>

\* What the endpoint may emit for one article: the three arrays in order; the
\* entities or the relationships key may be missing when the endpoint does not
\* honour the structural constraint.
EntSections == {<<>>} \cup {Section("entities", s) : s \in SeqsUpTo(EntityTokens, MaxEnts)}
RelSections == {<<>>} \cup {Section("relationships", s) : s \in SeqsUpTo(RelTokens, MaxRels)}
CtxSections == {Section("context", <<>>), Section("context", <<Ctx>>)}
Replies == {<<LB>> \o e \o r \o c \o <<RB>> : e \in EntSections, r \in RelSections, c \in CtxSections}

(***************************************************************************)
(* json.loads / json.load on a text.  The top level must be one object     *)
(* whose members are arrays of items; a repeated key keeps its last value;  *)
(* anything after the closing brace, or a missing one, is a decode error.  *)
(***************************************************************************)
NoDocument == [ok |-> FALSE, has |-> {}, val |-> [k \in Keys |-> <<>>]]

IsItem(tok) == tok[1] \in {"entity", "relationship", "context_item"}

RECURSIVE ParseItems(_, _, _)
ParseItems(t, i, acc) ==
    IF i > Len(t) THEN [ok |-> FALSE, next |-> i, items |-> acc]
    ELSE IF t[i] = EndArr THEN [ok |-> TRUE, next |-> i + 1, items |-> acc]
    ELSE IF IsItem(t[i]) THEN ParseItems(t, i + 1, Append(acc, t[i]))
    ELSE [ok |-> FALSE, next |-> i, items |-> acc]

RECURSIVE ParseMembers(_, _, _, _)
ParseMembers(t, i, has, val) ==
    IF i > Len(t) THEN NoDocument
    ELSE IF t[i] = RB
         THEN IF i = Len(t) THEN [ok |-> TRUE, has |-> has, val |-> val] ELSE NoDocument
    ELSE IF t[i][1] = "key"
         THEN LET arr == ParseItems(t, i + 1, <<>>)
              IN  IF arr.ok
                  THEN ParseMembers(t, arr.next, has \cup {t[i][2]},
                                    [val EXCEPT ![t[i][2]] = arr.items])
                  ELSE NoDocument
    ELSE NoDocument

json_loads(t) ==
    IF Len(t) = 0 \/ t[1] # LB THEN NoDocument
    ELSE ParseMembers(t, 2, {}, [k \in Keys |-> <<>>])

(***************************************************************************)
(* networkx.DiGraph: nodes, the node_type attribute of the nodes that have *)
(* one, and the edges with their relationship label.                       *)
(***************************************************************************)
UnboundGraph == [bound |-> FALSE, nodes |-> {}, node_type |-> {}, edges |-> {}]
DiGraph == [bound |-> TRUE, nodes |-> {}, node_type |-> {}, edges |-> {}]

add_node(g, n, t) ==
    [g EXCEPT !.nodes = @ \cup {n},
              !.node_type = {p \in @ : p[1] # n} \cup {<<n, t>>}]

\* add_edge keeping an earlier edge of the pair beside the new one.
add_edge_multi(g, s, t, d) ==
    [g EXCEPT !.nodes = @ \cup {s, t},
              !.edges = @ \cup {<<s, t, d>>}]

\* add_edge leaving an existing edge of the pair as it is.
add_edge_first_wins(g, s, t, d) ==
    [g EXCEPT !.nodes = @ \cup {s, t},
              !.edges = IF \E e \in @ : e[1] = s /\ e[2] = t THEN @ ELSE @ \cup {<<s, t, d>>}]

\* add_edge that skips a relationship with an endpoint that is no node yet.
add_edge_declared_only(g, s, t, d) ==
    IF {s, t} \subseteq g.nodes
    THEN [g EXCEPT !.edges = {e \in @ : ~(e[1] = s /\ e[2] = t)} \cup {<<s, t, d>>}]
    ELSE g

add_edge(g, s, t, d) ==
    [g EXCEPT !.nodes = @ \cup {s, t},
              !.edges = {e \in @ : ~(e[1] = s /\ e[2] = t)} \cup {<<s, t, d>>}]

\* item["field"]: the fields an item of the document carries.
Fields(item) ==
    IF item[1] = "entity" THEN {"name", "type"}
    ELSE IF item[1] = "relationship" THEN {"source", "target", "description"}
    ELSE {"aspect"}

Field(item, f) ==
    IF f \in {"name", "source"} THEN item[2]
    ELSE IF f \in {"type", "target"} THEN item[3]
    ELSE item[4]

(***************************************************************************)
(* load_knowledge_graph(filename), lines 35-49.                            *)
(***************************************************************************)
RECURSIVE LoadAddNodes(_, _, _)
LoadAddNodes(g, ents, i) ==
    IF i > Len(ents) THEN [err |-> "none", G |-> g]
    ELSE IF ~({"name", "type"} \subseteq Fields(ents[i])) THEN [err |-> "KeyError", G |-> g]
    ELSE LoadAddNodes(add_node(g, Field(ents[i], "name"), Field(ents[i], "type")), ents, i + 1)

\* The load loop labelling an edge with the target instead of the description.
RECURSIVE LoadAddEdges_target_label(_, _, _)
LoadAddEdges_target_label(g, rels, i) ==
    IF i > Len(rels) THEN [err |-> "none", G |-> g]
    ELSE IF ~({"source", "target", "description"} \subseteq Fields(rels[i]))
         THEN [err |-> "KeyError", G |-> g]
    ELSE LoadAddEdges_target_label(
             add_edge(g, Field(rels[i], "source"), Field(rels[i], "target"),
                      Field(rels[i], "target")), rels, i + 1)

RECURSIVE LoadAddEdges(_, _, _)
LoadAddEdges(g, rels, i) ==
    IF i > Len(rels) THEN [err |-> "none", G |-> g]
    ELSE IF ~({"source", "target", "description"} \subseteq Fields(rels[i]))
         THEN [err |-> "KeyError", G |-> g]
    ELSE LoadAddEdges(add_edge(g, Field(rels[i], "source"), Field(rels[i], "target"),
                               Field(rels[i], "description")), rels, i + 1)

load_knowledge_graph(files, filename) ==
    IF ~files[filename].exists
    THEN [err |-> "FileNotFoundError", G |-> UnboundGraph, graph_data |-> NoDocument]
    ELSE LET graph_data == json_loads(files[filename].text)
         IN  IF ~graph_data.ok
             THEN [err |-> "JSONDecodeError", G |-> UnboundGraph, graph_data |-> NoDocument]
             ELSE IF "entities" \notin graph_data.has
             THEN [err |-> "KeyError", G |-> DiGraph, graph_data |-> graph_data]
             ELSE LET n == LoadAddNodes(DiGraph, graph_data.val["entities"], 1)
                  IN  IF n.err # "none"
                      THEN [err |-> n.err, G |-> n.G, graph_data |-> graph_data]
                      ELSE IF "relationships" \notin graph_data.has
                      THEN [err |-> "KeyError", G |-> n.G, graph_data |-> graph_data]
                      ELSE LET e == LoadAddEdges(n.G, graph_data.val["relationships"], 1)
                           IN  [err |-> e.err, G |-> e.G, graph_data |-> graph_data]

(***************************************************************************)
(* The graph construction of create_knowledge_graph, lines 252-263.        *)
(***************************************************************************)
RECURSIVE LiveAddNodes(_, _, _)
LiveAddNodes(g, ents, i) ==
    IF i > Len(ents) THEN [err |-> "none", G |-> g]
    ELSE IF ~({"name", "type"} \subseteq Fields(ents[i])) THEN [err |-> "KeyError", G |-> g]
    ELSE LiveAddNodes(add_node(g, Field(ents[i], "name"), Field(ents[i], "type")), ents, i + 1)

RECURSIVE LiveAddEdges(_, _, _)
LiveAddEdges(g, rels, i) ==
    IF i > Len(rels) THEN [err |-> "none", G |-> g]
    ELSE IF ~({"source", "target", "description"} \subseteq Fields(rels[i]))
         THEN [err |-> "KeyError", G |-> g]
    ELSE LiveAddEdges(add_edge(g, Field(rels[i], "source"), Field(rels[i], "target"),
                               Field(rels[i], "description")), rels, i + 1)

Materialize(text) ==
    LET doc == json_loads(text)
    IN  IF ~doc.ok
        THEN [err |-> "JSONDecodeError", G |-> UnboundGraph, graph_data |-> NoDocument]
        ELSE IF "entities" \notin doc.has
        THEN [err |-> "KeyError", G |-> DiGraph, graph_data |-> doc]
        ELSE LET n == LiveAddNodes(DiGraph, doc.val["entities"], 1)
             IN  IF n.err # "none"
                 THEN [err |-> n.err, G |-> n.G, graph_data |-> doc]
                 ELSE IF "relationships" \notin doc.has
                 THEN [err |-> "KeyError", G |-> n.G, graph_data |-> doc]
                 ELSE LET e == LiveAddEdges(n.G, doc.val["relationships"], 1)
                      IN  [err |-> e.err, G |-> e.G, graph_data |-> doc]

(***************************************************************************)
(* State.                                                                  *)
(***************************************************************************)
VARIABLES
    fs,             \* the files: path -> [exists, text]
    reply,          \* the text the endpoint generates for the article (temperature 0)
    pc,             \* where the current call stands
    mode,           \* which operation the caller invoked last
    filename,       \* the path handed to load_knowledge_graph by the last load
    messages,       \* the conversation, lines 232-235 and 144
    posted,         \* the request bodies received by the endpoint in this call
    status,         \* HTTP status of the response, "none" before it arrives
    sentPos,        \* tokens of reply the endpoint has sent so far
    full_response,  \* message_r1's own buffer, line 191
    yielded,        \* the items message_r1 has yielded, in order
    response_full,  \* create_knowledge_graph's buffer, line 239
    G,              \* local G
    graph_data,     \* local graph_data (ok = FALSE: unbound)
    data,           \* local data of the replay branch, line 228
    err,            \* the exception that ended the call, "none" otherwise
    ret,            \* what the current call has returned to its caller
    trace           \* the states of the extraction flow visited by this call

vars == <<fs, reply, pc, mode, filename, messages, posted, status, sentPos, full_response,
          yielded, response_full, G, graph_data, data, err, ret, trace>>

NoFile == [exists |-> FALSE, text |-> <<>>]
File(t) == [exists |-> TRUE, text |-> t]

\* A snapshot left by an earlier run, and another stored document.
OldSnapshot ==
    <<LB>> \o Section("entities", <<Ent("a", "person")>>)
           \o Section("relationships", <<Rel("a", "b", "d1")>>)
           \o Section("context", <<>>) \o <<RB>>

Articles == {"article"}
Placeholder == "You are a Knowledge Graph creator..."
LongForm == "long-form instruction"
UserInstruction == "Please create a knowledge graph from the provided article: "

(***************************************************************************)
(* The vocabularies and the structural constraint built by message_r1.     *)
(***************************************************************************)
VALID_ENTITY_TYPES ==
    <<"person", "organization", "policy", "issue", "impact", "location", "event">>

ENTITY_SUBTYPES ==
    [t \in {VALID_ENTITY_TYPES[i] : i \in 1..Len(VALID_ENTITY_TYPES)} |->
        CASE t = "person" -> <<"politician", "activist", "expert">>
          [] t = "organization" -> <<"government", "NGO", "corporation">>
          [] t = "policy" -> <<"domestic", "foreign", "economic">>
          [] OTHER -> <<>>]

RELATIONSHIP_TYPES ==
    <<"implements", "opposes", "supports", "criticizes", "collaborates_with", "impacts",
      "responds_to">>

\* A JSON value that is a string, and one that is a list of strings.
JsonString(s) == [kind |-> "string", str |-> s, list |-> <<>>]
JsonList(l) == [kind |-> "list", str |-> "", list |-> l]

\* Line 99: the comprehension running through the values of ENTITY_SUBTYPES
\* in the order of its keys and through each value in turn.
RECURSIVE AllSubtypes(_)
AllSubtypes(i) ==
    IF i > Len(VALID_ENTITY_TYPES) THEN <<>>
    ELSE ENTITY_SUBTYPES[VALID_ENTITY_TYPES[i]] \o AllSubtypes(i + 1)

\* Line 78: one line per type that has subtypes, the type followed by them.
RECURSIVE subtypes_info(_)
subtypes_info(i) ==
    IF i > Len(VALID_ENTITY_TYPES) THEN <<>>
    ELSE LET key == VALID_ENTITY_TYPES[i]
             value == ENTITY_SUBTYPES[key]
         IN  (IF value # <<>> THEN <<key>> \o value ELSE <<>>) \o subtypes_info(i + 1)

\* Lines 86-131, the constraints on the members of an entity and of a
\* relationship: each enum is the list of the JSON values it admits.  Line 97
\* wraps the list of types in a list, so that enum has one member, a list.
json_schema ==
    [entity_type_enum |-> <<JsonList(VALID_ENTITY_TYPES)>>,
     entity_subtype_enum |-> [i \in 1..Len(AllSubtypes(1)) |-> JsonString(AllSubtypes(1)[i])],
     relationship_type_enum |->
         [i \in 1..Len(RELATIONSHIP_TYPES) |-> JsonString(RELATIONSHIP_TYPES[i])],
     required |-> <<"entities", "relationships", "context">>]

\* A value satisfies {"type": "string", "enum": enum} when it is a string and
\* equals one of the members of enum.
SatisfiesStringEnum(v, enum) ==
    v.kind = "string" /\ \E i \in 1..Len(enum) : enum[i] = v

\* The constraint of line 99 on the subtype of an entity, and the constraints
\* of lines 95-99 on an entity whose four required members are strings.
SubtypeAccepted(schema, e) == SatisfiesStringEnum(JsonString(e.subtype), schema.entity_subtype_enum)
TypeAccepted(schema, e) == SatisfiesStringEnum(JsonString(e.type), schema.entity_type_enum)
EntityAccepted(schema, e) == TypeAccepted(schema, e) /\ SubtypeAccepted(schema, e)

\* Lines 144-185: the long-form instruction with the three vocabularies
\* interpolated into it.
SystemPrompt ==
    <<LongForm, "Entity types MUST be one of:">> \o VALID_ENTITY_TYPES
        \o <<"Valid subtypes are:">> \o subtypes_info(1)
        \o <<"Use only these relationship types:">> \o RELATIONSHIP_TYPES

NoMessages == <<>>
NoReturn == [kind |-> "none", G |-> UnboundGraph, graph_data |-> NoDocument]

\* Yielded items: a str fragment, or the dict of the record flagged done.
StrItem(t) == [kind |-> "str", text |-> t]
DictItem == [kind |-> "dict", text |-> <<>>]

\* The snapshot of an earlier run is in place; the other path holds no file.
InitialFiles == [p \in Paths |-> IF p = SnapshotPath THEN File(OldSnapshot) ELSE NoFile]

Init ==
    /\ reply \in {r \in Replies : Len(r) <= MaxReplyLen}
    /\ fs = InitialFiles
    /\ pc = "Idle"
    /\ mode = "none"
    /\ filename = "none"
    /\ messages = NoMessages
    /\ posted = <<>>
    /\ status = "none"
    /\ sentPos = 0
    /\ full_response = <<>>
    /\ yielded = <<>>
    /\ response_full = <<>>
    /\ G = UnboundGraph
    /\ graph_data = NoDocument
    /\ data = NoDocument
    /\ err = "none"
    /\ ret = NoReturn
    /\ trace = <<"Idle">>

\* The caller may invoke an operation when none is in progress.
CanStart == pc \in {"Idle", "Done", "Error"}

\* Fresh buffers of a new call.
FreshBuffers ==
    /\ posted' = <<>>
    /\ status' = "none"
    /\ sentPos' = 0
    /\ full_response' = <<>>
    /\ yielded' = <<>>
    /\ response_full' = <<>>

\* An exception leaves the call.
Raise(e) ==
    /\ pc' = "Error"
    /\ err' = e
    /\ trace' = Append(trace, "Error")

Min(a, b) == IF a < b THEN a ELSE b

(***************************************************************************)
(* message_r1 with stream = True, lines 189-202, one line of the body at a *)
(* time.  A line is empty, not JSON at all, or a JSON record with a done    *)
(* flag and a message content.                                             *)
(***************************************************************************)
EmptyLine == [kind |-> "empty", done |-> FALSE, content |-> <<>>]
GarbageLine == [kind |-> "garbage", done |-> FALSE, content |-> <<>>]
Record(done, content) == [kind |-> "record", done |-> done, content |-> content]

\* Lines 193-201: what one line does to the generator.
ProcessLine(line, buf) ==
    IF line.kind = "empty" THEN [err |-> "none", items |-> <<>>, buf |-> buf]
    ELSE IF line.kind = "garbage" THEN [err |-> "JSONDecodeError", items |-> <<>>, buf |-> buf]
    ELSE IF ~line.done
         THEN [err |-> "none", items |-> <<StrItem(line.content)>>, buf |-> buf \o line.content]
    ELSE [err |-> "none", items |-> <<DictItem>>, buf |-> buf]

\* The loop putting each fragment in front of the buffer.
Consume_prepend(buf, chunk) == IF chunk.kind = "str" THEN chunk.text \o buf ELSE buf

\* Lines 240-245: what the loop of create_knowledge_graph does with one item.
Consume(buf, chunk) == IF chunk.kind = "str" THEN buf \o chunk.text ELSE buf

RECURSIVE ConsumeAll(_, _, _)
ConsumeAll(buf, items, i) ==
    IF i > Len(items) THEN buf ELSE ConsumeAll(Consume(buf, items[i]), items, i + 1)

InStream == pc \in {"RequestSent", "StreamingAccumulate"} /\ mode = "live"
DoneSeen == Len(yielded) > 0 /\ yielded[Len(yielded)].kind = "dict"

\* The loop storing the text accumulated so far after each line.
StreamStep_write_through(line) ==
    LET r == ProcessLine(line, full_response)
        buf == ConsumeAll(response_full, r.items, 1)
    IN  /\ full_response' = r.buf
        /\ yielded' = yielded \o r.items
        /\ response_full' = buf
        /\ fs' = [fs EXCEPT ![SnapshotPath] = File(buf)]
        /\ IF r.err # "none"
           THEN Raise(r.err)
           ELSE /\ pc' = "StreamingAccumulate"
                /\ err' = err
                /\ trace' = IF pc = "StreamingAccumulate" THEN trace
                            ELSE Append(trace, "StreamingAccumulate")
        /\ UNCHANGED <<reply, mode, filename, messages, posted, status, G, graph_data, data, ret>>

\* One line read from the response and handled by both loops.
StreamStep(line) ==
    LET r == ProcessLine(line, full_response)
    IN  /\ full_response' = r.buf
        /\ yielded' = yielded \o r.items
        /\ response_full' = ConsumeAll(response_full, r.items, 1)
        /\ IF r.err # "none"
           THEN Raise(r.err)
           ELSE /\ pc' = "StreamingAccumulate"
                /\ err' = err
                /\ trace' = IF pc = "StreamingAccumulate" THEN trace
                            ELSE Append(trace, "StreamingAccumulate")
        /\ UNCHANGED <<fs, reply, mode, filename, messages, posted, status, G, graph_data, data, ret>>

(***************************************************************************)
(* The live path of create_knowledge_graph.                                *)
(***************************************************************************)
\* Lines 229-239.
BuildPrompt ==
    /\ CanStart
    /\ \E article_text \in Articles :
          messages' = <<[role |-> "system", content |-> <<Placeholder>>],
                        [role |-> "user", content |-> <<UserInstruction, article_text>>]>>
    /\ mode' = "live"
    /\ FreshBuffers
    /\ G' = UnboundGraph
    /\ graph_data' = NoDocument
    /\ data' = NoDocument
    /\ err' = "none"
    /\ ret' = NoReturn
    /\ filename' = "none"
    /\ pc' = "PromptBuilt"
    /\ trace' = <<"Idle", "PromptBuilt">>
    /\ UNCHANGED <<fs, reply>>

\* The system message as rewritten by line 144.
WithSystemPrompt(msgs) == [msgs EXCEPT ![1].content = SystemPrompt]

\* The request posted with the conversation as the caller built it.
RequestBody_before_rewrite(msgs, stream) ==
    [messages |-> msgs, stream |-> stream, format |-> json_schema]

\* The body of message_r1 up to the POST, lines 53-187; the body is serialized
\* when it is posted, after line 144 rewrote the list it refers to.
RequestBody(msgs, stream) ==
    [messages |-> WithSystemPrompt(msgs), stream |-> stream, format |-> json_schema]

\* Line 240 starts the generator, which runs to line 187.  requests.post
\* raises when no connection can be made and returns the response otherwise,
\* whatever its status.
SendRequest ==
    /\ pc = "PromptBuilt"
    /\ messages' = WithSystemPrompt(messages)
    /\ posted' = Append(posted, RequestBody(messages, TRUE))
    /\ \E outcome \in {"refused", "200", "500"} :
          IF outcome = "refused"
          THEN /\ pc' = "Error"
               /\ err' = "ConnectionError"
               /\ trace' = trace \o <<"RequestSent", "Error">>
               /\ status' = status
          ELSE /\ status' = outcome
               /\ pc' = "RequestSent"
               /\ err' = err
               /\ trace' = Append(trace, "RequestSent")
    /\ UNCHANGED <<fs, reply, mode, filename, sentPos, full_response, yielded, response_full,
                   G, graph_data, data, ret>>

\* A record carrying the next fragment of the generated text.
RecvFragment ==
    /\ InStream /\ ~DoneSeen
    /\ status = "200"
    /\ sentPos < Len(reply)
    /\ LET k == Min(ChunkLen, Len(reply) - sentPos)
       IN  /\ StreamStep(Record(FALSE, SubSeq(reply, sentPos + 1, sentPos + k)))
           /\ sentPos' = sentPos + k

\* The first record of a body carrying no message content: the record an
\* endpoint sends before it generates, or the JSON error body of a non-2xx
\* response.  Line 196 makes it the empty fragment.
RecvNoContent ==
    /\ InStream
    /\ yielded = <<>>
    /\ StreamStep(Record(FALSE, <<>>))
    /\ UNCHANGED sentPos

\* A keep-alive line, skipped by line 193.
RecvEmptyLine ==
    /\ InStream /\ ~DoneSeen
    /\ StreamStep(EmptyLine)
    /\ UNCHANGED sentPos

\* The terminal record.  The done flag marks the last record of a body, so
\* after it the endpoint sends nothing but the end of the body.
RecvDone ==
    /\ InStream /\ ~DoneSeen
    /\ status = "200"
    /\ StreamStep(Record(TRUE, <<>>))
    /\ UNCHANGED sentPos

\* A line that is not JSON: json.loads at line 194 raises.
RecvGarbage ==
    /\ InStream /\ ~DoneSeen
    /\ StreamStep(GarbageLine)
    /\ UNCHANGED sentPos

\* A broken connection answered by posting the request again.
StreamBroken_retry ==
    /\ InStream
    /\ posted' = Append(posted, RequestBody(messages, TRUE))
    /\ pc' = "RequestSent"
    /\ trace' = Append(trace, "RequestSent")
    /\ sentPos' = 0
    /\ UNCHANGED <<fs, reply, mode, filename, messages, status, full_response,
                   yielded, response_full, G, graph_data, data, err, ret>>

\* The connection breaks while iter_lines waits, line 192.
StreamBroken ==
    /\ InStream
    /\ Raise("ChunkedEncodingError")
    /\ UNCHANGED <<fs, reply, mode, filename, messages, posted, status, sentPos, full_response,
                   yielded, response_full, G, graph_data, data, ret>>

\* The body ends: the generator returns and the loop of line 240 exits.
EndOfStream ==
    /\ InStream
    /\ pc' = "DocumentComplete"
    /\ trace' = Append(trace, "DocumentComplete")
    /\ UNCHANGED <<fs, reply, mode, filename, messages, posted, status, sentPos, full_response,
                   yielded, response_full, G, graph_data, data, err, ret>>

\* The write left out: the flow goes on with the file as it was.
Persist_without_write ==
    /\ pc = "DocumentComplete"
    /\ pc' = "Persisted"
    /\ trace' = Append(trace, "Persisted")
    /\ UNCHANGED <<fs, reply, mode, filename, messages, posted, status, sentPos, full_response,
                   yielded, response_full, G, graph_data, data, err, ret>>

\* Lines 249-250.
Persist ==
    /\ pc = "DocumentComplete"
    /\ fs' = [fs EXCEPT ![SnapshotPath] = File(response_full)]
    /\ pc' = "Persisted"
    /\ trace' = Append(trace, "Persisted")
    /\ UNCHANGED <<reply, mode, filename, messages, posted, status, sentPos, full_response,
                   yielded, response_full, G, graph_data, data, err, ret>>

\* Lines 252-263.
BuildGraph ==
    /\ pc = "Persisted"
    /\ LET m == Materialize(response_full)
       IN  /\ G' = m.G
           /\ graph_data' = m.graph_data
           /\ IF m.err = "none"
              THEN /\ pc' = "GraphBuilt"
                   /\ err' = err
                   /\ trace' = Append(trace, "GraphBuilt")
              ELSE Raise(m.err)
    /\ UNCHANGED <<fs, reply, mode, filename, messages, posted, status, sentPos, full_response,
                   yielded, response_full, data, ret>>

\* Line 348, reached by both branches (the renderer of lines 266-346 is an
\* external collaborator and leaves the locals alone).
ReturnValue(g, gd) ==
    IF g.bound /\ gd.ok
    THEN [err |-> "none", ret |-> [kind |-> "pair", G |-> g, graph_data |-> gd]]
    ELSE [err |-> "UnboundLocalError", ret |-> NoReturn]

Return ==
    /\ pc \in {"GraphBuilt", "Loaded"}
    /\ LET r == ReturnValue(G, graph_data)
       IN  IF r.err = "none"
           THEN /\ ret' = r.ret
                /\ pc' = "Done"
                /\ err' = err
                /\ trace' = trace
           ELSE /\ Raise(r.err)
                /\ ret' = ret
    /\ UNCHANGED <<fs, reply, mode, filename, messages, posted, status, sentPos, full_response,
                   yielded, response_full, G, graph_data, data>>

(***************************************************************************)
(* The replay path of create_knowledge_graph, lines 227-228.               *)
(***************************************************************************)
\* Whatever load_file names, line 228 loads the fixed snapshot path and binds
\* the document to data.
LoadSnapshot ==
    /\ CanStart
    /\ LET r == load_knowledge_graph(fs, SnapshotPath)
       IN  IF r.err = "none"
           THEN /\ G' = r.G
                /\ data' = r.graph_data
                /\ pc' = "Loaded"
                /\ err' = "none"
                /\ trace' = <<"Idle", "Loaded">>
           ELSE /\ G' = UnboundGraph
                /\ data' = NoDocument
                /\ pc' = "Error"
                /\ err' = r.err
                /\ trace' = <<"Idle", "Error">>
    /\ mode' = "replay"
    /\ filename' = SnapshotPath
    /\ FreshBuffers
    /\ graph_data' = NoDocument
    /\ messages' = NoMessages
    /\ ret' = NoReturn
    /\ UNCHANGED <<fs, reply>>

(***************************************************************************)
(* load_knowledge_graph called by a client directly.                       *)
(***************************************************************************)
CallLoad ==
    /\ CanStart
    /\ \E path \in Paths :
          LET r == load_knowledge_graph(fs, path)
          IN  /\ filename' = path
              /\ IF r.err = "none"
                 THEN /\ ret' = [kind |-> "pair", G |-> r.G, graph_data |-> r.graph_data]
                      /\ pc' = "Done"
                      /\ err' = "none"
                      /\ trace' = <<"Idle">>
                 ELSE /\ ret' = NoReturn
                      /\ pc' = "Error"
                      /\ err' = r.err
                      /\ trace' = <<"Idle", "Error">>
    /\ mode' = "load"
    /\ FreshBuffers
    /\ G' = UnboundGraph
    /\ graph_data' = NoDocument
    /\ data' = NoDocument
    /\ messages' = NoMessages
    /\ UNCHANGED <<fs, reply>>

(***************************************************************************)
(* message_r1 called with stream = False.  The function contains yield, so *)
(* the call only creates a generator; its body runs on the first next().   *)
(***************************************************************************)
CallNonStream ==
    /\ CanStart
    /\ \E article_text \in Articles :
          messages' = <<[role |-> "system", content |-> <<Placeholder>>],
                        [role |-> "user", content |-> <<UserInstruction, article_text>>]>>
    /\ mode' = "nonstream"
    /\ FreshBuffers
    /\ G' = UnboundGraph
    /\ graph_data' = NoDocument
    /\ data' = NoDocument
    /\ err' = "none"
    /\ ret' = [kind |-> "generator", G |-> UnboundGraph, graph_data |-> NoDocument]
    /\ filename' = "none"
    /\ pc' = "Done"
    /\ trace' = <<"Idle">>
    /\ UNCHANGED <<fs, reply>>

\* The client iterates the generator: lines 53-187, then 203-205, where
\* return inside a generator raises StopIteration carrying the response.
NextOnGenerator ==
    /\ pc = "Done" /\ mode = "nonstream" /\ ret.kind = "generator"
    /\ messages' = WithSystemPrompt(messages)
    /\ posted' = Append(posted, RequestBody(messages, FALSE))
    /\ \E outcome \in {"refused", "200", "500"} :
          IF outcome = "refused"
          THEN /\ Raise("ConnectionError")
               /\ status' = status
          ELSE /\ Raise("StopIteration")
               /\ status' = outcome
    /\ ret' = [kind |-> "exhausted", G |-> UnboundGraph, graph_data |-> NoDocument]
    /\ UNCHANGED <<fs, reply, mode, filename, sentPos, full_response, yielded, response_full,
                   G, graph_data, data>>

Next ==
    \/ BuildPrompt
    \/ SendRequest
    \/ RecvFragment
    \/ RecvNoContent
    \/ RecvEmptyLine
    \/ RecvDone
    \/ RecvGarbage
    \/ StreamBroken
    \/ EndOfStream
    \/ Persist
    \/ BuildGraph
    \/ Return
    \/ LoadSnapshot
    \/ CallLoad
    \/ CallNonStream
    \/ NextOnGenerator

Spec == Init /\ [][Next]_vars

(***************************************************************************)
(* The materializer on every document of the bounds: the live path from    *)
(* the point where the whole reply has arrived in fragments of ChunkLen    *)
(* tokens and the terminal record, followed by loads of the stored files.  *)
(***************************************************************************)
RECURSIVE Fragments(_, _)
Fragments(t, pos) ==
    IF pos >= Len(t) THEN <<>>
    ELSE LET k == Min(ChunkLen, Len(t) - pos)
         IN  <<StrItem(SubSeq(t, pos + 1, pos + k))>> \o Fragments(t, pos + k)

InitMaterializer ==
    /\ reply \in Replies
    /\ fs = InitialFiles
    /\ pc = "DocumentComplete"
    /\ mode = "live"
    /\ filename = "none"
    /\ \E article_text \in Articles :
          messages = WithSystemPrompt(
                        <<[role |-> "system", content |-> <<Placeholder>>],
                          [role |-> "user", content |-> <<UserInstruction, article_text>>]>>)
    /\ posted = <<RequestBody(messages, TRUE)>>
    /\ status = "200"
    /\ sentPos = Len(reply)
    /\ full_response = reply
    /\ yielded = Append(Fragments(reply, 0), DictItem)
    /\ response_full = ConsumeAll(<<>>, yielded, 1)
    /\ G = UnboundGraph
    /\ graph_data = NoDocument
    /\ data = NoDocument
    /\ err = "none"
    /\ ret = NoReturn
    /\ trace = <<"Idle", "PromptBuilt", "RequestSent", "StreamingAccumulate", "DocumentComplete">>

NextMaterializer ==
    \/ Persist
    \/ BuildGraph
    \/ Return
    \/ CallLoad

SpecMaterializer == InitMaterializer /\ [][NextMaterializer]_vars

(***************************************************************************)
(* What a text says, read off its tokens without the parser.               *)
(***************************************************************************)
EntitiesOf(t) == SelectSeq(t, LAMBDA tok : tok[1] = "entity")
RelationshipsOf(t) == SelectSeq(t, LAMBDA tok : tok[1] = "relationship")
ContextOf(t) == SelectSeq(t, LAMBDA tok : tok[1] = "context_item")
HasKey(t, k) == \E i \in 1..Len(t) : t[i] = Key(k)

\* A complete serialized document with its three arrays.
IsDocument(t) ==
    /\ Len(t) >= 2 /\ t[1] = LB /\ t[Len(t)] = RB
    /\ \A k \in Keys : HasKey(t, k)

UniqueNames(ents) == \A i, j \in 1..Len(ents) : i # j => ents[i][2] # ents[j][2]
DeclaredNames(ents) == {ents[i][2] : i \in 1..Len(ents)}
Endpoints(rels) == {rels[i][2] : i \in 1..Len(rels)} \cup {rels[i][3] : i \in 1..Len(rels)}
DistinctPairs(rels) ==
    \A i, j \in 1..Len(rels) : i # j => <<rels[i][2], rels[i][3]>> # <<rels[j][2], rels[j][3]>>

\* The last index of rels whose (source, target) is (s, t); 0 when there is none.
LastWith(rels, s, t) ==
    LET I == {i \in 1..Len(rels) : rels[i][2] = s /\ rels[i][3] = t}
    IN  IF I = {} THEN 0 ELSE CHOOSE i \in I : \A j \in I : j <= i

\* The last index of ents whose name is n; 0 when there is none.
LastNamed(ents, n) ==
    LET I == {i \in 1..Len(ents) : ents[i][2] = n}
    IN  IF I = {} THEN 0 ELSE CHOOSE i \in I : \A j \in I : j <= i

\* The graphs the model holds together with the text each was built from:
\* the live build and a direct load.
BuiltGraphs ==
    (IF mode = "live" /\ pc \in {"GraphBuilt", "Done"}
     THEN {[G |-> G, text |-> response_full, graph_data |-> graph_data]} ELSE {})
    \cup
    (IF mode = "load" /\ pc = "Done"
     THEN {[G |-> ret.G, text |-> fs[filename].text, graph_data |-> ret.graph_data]} ELSE {})

\* The materializer has ended in an error on the text MaterializerInput.
MaterializerFailed ==
    \/ mode = "live" /\ pc = "Error" /\ "Persisted" \in {trace[i] : i \in 1..Len(trace)}
    \/ mode = "load" /\ pc = "Error" /\ fs[filename].exists

MaterializerInput ==
    IF mode = "live" THEN response_full
    ELSE IF mode = "load" /\ fs[filename].exists THEN fs[filename].text
    ELSE <<>>

\* C1: for a valid document with unique entity names the build completes
\* without error; the graph has at least len(entities) nodes, strictly more
\* exactly when a relationship names an undeclared endpoint; it has
\* len(relationships) edges when all (source, target) pairs are distinct and
\* fewer when a pair repeats; the empty document gives the empty graph.
C1_BuildCounts ==
    /\ MaterializerFailed =>
          ~(IsDocument(MaterializerInput) /\ UniqueNames(EntitiesOf(MaterializerInput)))
    /\ \A b \in BuiltGraphs :
          LET ents == EntitiesOf(b.text)
              rels == RelationshipsOf(b.text)
          IN  (IsDocument(b.text) /\ UniqueNames(ents)) =>
                 /\ Cardinality(b.G.nodes) >= Len(ents)
                 /\ (Cardinality(b.G.nodes) > Len(ents)) <=>
                       (Endpoints(rels) \ DeclaredNames(ents) # {})
                 /\ DistinctPairs(rels) => Cardinality(b.G.edges) = Len(rels)
                 /\ ~DistinctPairs(rels) => Cardinality(b.G.edges) < Len(rels)
                 /\ (ents = <<>> /\ rels = <<>> /\ ContextOf(b.text) = <<>>) =>
                       (b.G.nodes = {} /\ b.G.edges = {})

\* C1 witness: a live build of two declared entities and two relationships
\* over the same pair: two nodes, one edge.
C1_Witness ==
    /\ mode = "live" /\ pc = "GraphBuilt"
    /\ IsDocument(response_full)
    /\ UniqueNames(EntitiesOf(response_full))
    /\ Len(EntitiesOf(response_full)) = 2
    /\ Len(RelationshipsOf(response_full)) = 2
    /\ ~DistinctPairs(RelationshipsOf(response_full))
    /\ Cardinality(G.nodes) = 2
    /\ Cardinality(G.edges) = 1

\* C3: for every ordered (source, target) pair of the document the graph
\* holds exactly one edge, labelled with the description of the last
\* relationship of that pair; the raw document returned with the graph keeps
\* every relationship.
C3_LastRelationshipWins ==
    \A b \in BuiltGraphs :
       LET rels == RelationshipsOf(b.text)
       IN  IsDocument(b.text) =>
              /\ \A s \in Names, t \in Names :
                    LET last == LastWith(rels, s, t)
                    IN  {e \in b.G.edges : e[1] = s /\ e[2] = t} =
                           IF last = 0 THEN {} ELSE {<<s, t, rels[last][4]>>}
              /\ b.graph_data.ok
              /\ b.graph_data.val["relationships"] = rels

\* C3 witness: a live call has returned a graph built from two relationships
\* over one pair with different descriptions.
C3_Witness ==
    /\ mode = "live" /\ pc = "Done" /\ ret.kind = "pair"
    /\ LET rels == RelationshipsOf(response_full)
       IN  /\ Len(rels) = 2
           /\ rels[1][2] = rels[2][2] /\ rels[1][3] = rels[2][3]
           /\ rels[1][4] # rels[2][4]
           /\ ret.G.edges = {<<rels[2][2], rels[2][3], rels[2][4]>>}
           /\ Len(ret.graph_data.val["relationships"]) = 2

\* C4: every relationship of a complete document produces an edge, declared
\* endpoints or not, and no error; a node that no entity declares carries no
\* type attribute; a node an entity declares carries that entity's type.
C4_UndeclaredEndpoints ==
    /\ MaterializerFailed => ~IsDocument(MaterializerInput)
    /\ \A b \in BuiltGraphs :
          LET ents == EntitiesOf(b.text)
              rels == RelationshipsOf(b.text)
          IN  IsDocument(b.text) =>
                 /\ \A i \in 1..Len(rels) :
                       \E e \in b.G.edges : e[1] = rels[i][2] /\ e[2] = rels[i][3]
                 /\ \A n \in b.G.nodes :
                       {p \in b.G.node_type : p[1] = n} =
                          IF LastNamed(ents, n) = 0 THEN {}
                          ELSE {<<n, ents[LastNamed(ents, n)][3]>>}
                 /\ DeclaredNames(ents) \subseteq b.G.nodes

\* C4 witness: a live build where a relationship names an endpoint no entity
\* declares, next to a declared one.
C4_Witness ==
    /\ mode = "live" /\ pc = "GraphBuilt"
    /\ LET ents == EntitiesOf(response_full)
           rels == RelationshipsOf(response_full)
       IN  /\ Len(ents) = 1 /\ Len(rels) = 1
           /\ rels[1][2] = ents[1][2]
           /\ rels[1][3] # ents[1][2]
           /\ G.edges = {<<rels[1][2], rels[1][3], rels[1][4]>>}
           /\ G.node_type = {<<ents[1][2], ents[1][3]>>}
           /\ Cardinality(G.nodes) = 2

\* C2: once the live path has stored its text and returned its graph, a load
\* of the snapshot path gives a graph with the same nodes, node types, edges
\* and edge labels, and the stored text is the fetched text.
C2_RoundTrip ==
    [][(pc = "Done" /\ mode = "live" /\ mode' = "load" /\ filename' = SnapshotPath)
        => /\ fs[SnapshotPath] = File(response_full)
           /\ pc' = "Done"
           /\ ret'.kind = "pair"
           /\ ret'.G.nodes = ret.G.nodes
           /\ ret'.G.node_type = ret.G.node_type
           /\ ret'.G.edges = ret.G.edges]_vars

\* C2 witness: a direct load of the snapshot the live path wrote, a document
\* with entities and relationships, has returned.
C2_Witness ==
    /\ mode = "load" /\ pc = "Done" /\ filename = SnapshotPath
    /\ fs[SnapshotPath] = File(reply)
    /\ reply # OldSnapshot
    /\ Len(EntitiesOf(reply)) = 2
    /\ Len(RelationshipsOf(reply)) = 2
    /\ ret.G.edges # {}

(***************************************************************************)
(* The extraction client and the flow of the live path.                    *)
(***************************************************************************)
RECURSIVE JoinFragments(_)
JoinFragments(items) ==
    IF items = <<>> THEN <<>>
    ELSE (IF Head(items).kind = "str" THEN Head(items).text ELSE <<>>)
         \o JoinFragments(Tail(items))

Visited(state) == \E i \in 1..Len(trace) : trace[i] = state

C6_NonStreamingReturnsResponse ==
    (mode = "nonstream" /\ pc = "Done") => (Len(posted) = 1 /\ ret.kind = "response")

\* C7: the live path on a well-formed document and the replay path on a
\* well-formed snapshot both end by returning a pair (graph, document), never
\* in an error.
C7_PathsReturnPair ==
    /\ (mode = "live" /\ pc \in {"Done", "Error"} /\ Visited("DocumentComplete")
           /\ IsDocument(response_full))
          => (pc = "Done" /\ ret.kind = "pair")
    /\ (mode = "replay" /\ pc \in {"Done", "Error"}
           /\ fs[SnapshotPath].exists /\ IsDocument(fs[SnapshotPath].text))
          => (pc = "Done" /\ ret.kind = "pair")

\* The failures of the transport layer and of the stream, as the model sees them.
TransportFailure ==
    \/ status = "500"
    \/ err \in {"ConnectionError", "ChunkedEncodingError"}
    \/ err = "JSONDecodeError" /\ ~Visited("DocumentComplete")

\* C8: a connection failure, a non-2xx response and a malformed or broken
\* stream each end the extraction in an error raised from RequestSent or
\* StreamingAccumulate, after a single request.
C8_FailuresAbortExtraction ==
    (mode = "live" /\ TransportFailure) =>
       /\ pc \in {"RequestSent", "StreamingAccumulate", "Error"}
       /\ Len(posted) = 1
       /\ pc = "Error" =>
             /\ trace[Len(trace) - 1] \in {"RequestSent", "StreamingAccumulate"}
             /\ err \in {"ConnectionError", "ChunkedEncodingError", "JSONDecodeError"}

\* C9: when an error ends the live path after the document is complete, it is
\* a parse error of a text that is no complete document, the snapshot holds
\* exactly the fetched text, and nothing was returned.
C9_PersistedBeforeParse ==
    (mode = "live" /\ pc = "Error" /\ Visited("DocumentComplete")) =>
       /\ err \in {"JSONDecodeError", "KeyError"}
       /\ ~IsDocument(response_full)
       /\ response_full = full_response
       /\ fs[SnapshotPath] = File(response_full)
       /\ ret = NoReturn
       /\ ~Visited("GraphBuilt")

\* C9 witness: a truncated reply was fetched, stored, and then failed to parse.
C9_Witness ==
    /\ mode = "live" /\ pc = "Error" /\ err = "JSONDecodeError"
    /\ Visited("Persisted")
    /\ response_full # <<>>
    /\ response_full # reply
    /\ fs[SnapshotPath] = File(response_full)

\* The states of a live extraction, in order.
LiveFlow ==
    <<"Idle", "PromptBuilt", "RequestSent", "StreamingAccumulate", "DocumentComplete",
      "Persisted", "GraphBuilt">>
LiveFlowNoLines ==
    <<"Idle", "PromptBuilt", "RequestSent", "DocumentComplete", "Persisted", "GraphBuilt">>

IsPrefix(a, b) == Len(a) <= Len(b) /\ a = SubSeq(b, 1, Len(a))

C10_FlowInvariant ==
    mode = "live" =>
       LET n == Len(trace)
           visited == IF trace[n] = "Error" THEN SubSeq(trace, 1, n - 1) ELSE trace
       IN  /\ IsPrefix(visited, LiveFlow) \/ IsPrefix(visited, LiveFlowNoLines)
           /\ pc = "Error" <=> trace[n] = "Error"
           /\ pc # "Error" => (trace[n] = pc \/ (pc = "Done" /\ trace[n] = "GraphBuilt"))
           /\ Len(posted) <= 1
           /\ Visited("RequestSent") => Len(posted) = 1

\* The step out of a failed extraction is the first step of a new call.
C10_ErrorIsTerminal ==
    (mode = "live" /\ pc = "Error") =>
       /\ trace'[1] = "Idle" /\ Len(trace') <= 2
       /\ pc' \in {"PromptBuilt", "Loaded", "Done", "Error"}
       /\ posted' = <<>> /\ yielded' = <<>> /\ response_full' = <<>>
       /\ ~G'.bound \/ mode' = "replay"

\* C10: a live extraction visits Idle, PromptBuilt, RequestSent,
\* StreamingAccumulate (if any line arrives), DocumentComplete, Persisted and
\* GraphBuilt in this order, possibly cut short by an error; it sends at most
\* one request; after an error the only step is the start of a new call.
C10_ExtractionFlow == []C10_FlowInvariant /\ [][C10_ErrorIsTerminal]_vars

\* C10 witness: a live extraction went through every state of the flow and
\* returned, with one request sent.
C10_Witness ==
    /\ mode = "live" /\ pc = "Done"
    /\ trace = LiveFlow
    /\ Len(posted) = 1
    /\ Len(yielded) >= 3

(***************************************************************************)
(* The structural constraint sent with the request.                        *)
(***************************************************************************)
SeqRange(q) == {q[i] : i \in 1..Len(q)}

\* Entities whose type and subtype range over the vocabularies, the empty
\* string and one string of neither vocabulary.
SchemaEntities ==
    [type : SeqRange(VALID_ENTITY_TYPES) \cup {"planet"},
     subtype : SeqRange(AllSubtypes(1)) \cup {"", "other"}]

\* The subtype of e is registered for the type of e, or that type has no
\* registered subtype.
SubtypeRegistered(e) ==
    /\ e.type \in SeqRange(VALID_ENTITY_TYPES)
    /\ \/ ENTITY_SUBTYPES[e.type] = <<>>
       \/ e.subtype \in SeqRange(ENTITY_SUBTYPES[e.type])

\* C11: the constraint posted with a request accepts the subtype of an entity
\* only if it is registered for the entity's own type, and accepts every
\* entity of a type without registered subtypes, whatever its subtype: an
\* "event" with subtype "" conforms.
C11_SubtypeOfOwnType ==
    \A i \in 1..Len(posted) : \A e \in SchemaEntities :
        /\ SubtypeAccepted(posted[i].format, e) => SubtypeRegistered(e)
        /\ (e.type \in SeqRange(VALID_ENTITY_TYPES) /\ ENTITY_SUBTYPES[e.type] = <<>>)
              => EntityAccepted(posted[i].format, e)

\* What the posted constraint does: the subtype is accepted exactly when it is
\* one of the nine registered subtypes, whatever the type, and no entity with
\* a string type passes the type constraint.
C11_FlatSubtypeEnum ==
    \A i \in 1..Len(posted) : \A e \in SchemaEntities :
        /\ SubtypeAccepted(posted[i].format, e) <=> e.subtype \in SeqRange(AllSubtypes(1))
        /\ ~TypeAccepted(posted[i].format, e)

C11_Witness ==
    /\ Len(posted) = 1
    /\ SubtypeAccepted(posted[1].format, [type |-> "person", subtype |-> "NGO"])
    /\ ~SubtypeAccepted(posted[1].format, [type |-> "event", subtype |-> ""])

(***************************************************************************)
(* The messages posted to the endpoint.                                    *)
(***************************************************************************)
\* The content embeds the three vocabularies.
EmbedsVocabularies(content) ==
    SeqRange(VALID_ENTITY_TYPES) \cup SeqRange(AllSubtypes(1)) \cup SeqRange(RELATIONSHIP_TYPES)
        \subseteq SeqRange(content)

PostedMessagesInvariant ==
    \A i \in 1..Len(posted) :
        LET m == posted[i].messages
        IN  /\ Len(m) = 2
            /\ m[1].role = "system"
            /\ m[1].content # <<Placeholder>>
            /\ m[1].content[1] = LongForm
            /\ EmbedsVocabularies(m[1].content)
            /\ m[2].role = "user"
            /\ \E article_text \in Articles : m[2].content = <<UserInstruction, article_text>>
            /\ m[2] = messages[2]

\* A step that posts a request keeps the user message of the caller's list
\* and posts it as it was.
PostKeepsUserMessage ==
    Len(posted') > Len(posted) =>
        /\ Len(messages) = 2 /\ Len(messages') = 2
        /\ messages'[2] = messages[2]
        /\ posted'[Len(posted')].messages[2] = messages[2]

\* C12: every posted request body carries exactly two messages, a system
\* message with the long-form instruction embedding the three vocabularies
\* (not the placeholder) and then a user message with the fixed instruction
\* followed by the article text; posting leaves the user message unchanged.
C12_PostedMessages == []PostedMessagesInvariant /\ [][PostKeepsUserMessage]_vars

\* C12 witness: a live extraction has posted its request, whose system
\* message differs from the one the caller wrote.
C12_Witness ==
    /\ mode = "live" /\ Len(posted) = 1
    /\ posted[1].messages[1].content = SystemPrompt
    /\ posted[1].messages[2].content = <<UserInstruction, "article">>
    /\ posted[1].stream = TRUE

(***************************************************************************)
(* The snapshot when the request or the stream fails.                      *)
(***************************************************************************)
\* The live call failed while the request was sent or the stream was read.
FailedBeforeDocument ==
    mode = "live" /\ pc = "Error" /\ ~Visited("DocumentComplete")

\* Such a failure is a transport exception or a line that is no JSON; the
\* call has returned nothing and built nothing from the text it had received.
FailureDiscardsText ==
    FailedBeforeDocument =>
        /\ err \in {"ConnectionError", "ChunkedEncodingError", "JSONDecodeError"}
        /\ ret = NoReturn
        /\ ~G.bound /\ ~graph_data.ok
        /\ ~Visited("Persisted")

\* Every step that leaves a live call short of its write, the step starting
\* the call and the step raising the error included, leaves the files as they
\* were.
NoWriteBeforePersist ==
    (mode' = "live" /\ \A i \in 1..Len(trace') : trace'[i] # "Persisted") => fs' = fs

\* C13: when the request or the stream of a live extraction raises an error,
\* no step of the extraction up to and including the failure has written the
\* snapshot, so its content is the one of before the call, and the text
\* accumulated so far is neither stored nor returned.
C13_SnapshotUntouchedOnStreamError == []FailureDiscardsText /\ [][NoWriteBeforePersist]_vars

\* C13 witness: after an extraction that stored its document, a second one
\* failed on a line that is no JSON with part of the text accumulated, and the
\* snapshot still holds the earlier document.
C13_Witness ==
    /\ FailedBeforeDocument
    /\ err = "JSONDecodeError"
    /\ response_full # <<>>
    /\ fs[SnapshotPath] # File(OldSnapshot)
    /\ fs[SnapshotPath] # File(response_full)
    /\ fs[SnapshotPath] = File(reply)
====
